---- MODULE Spec2Model ----
(***************************************************************************)
(* A model of bin/resize.py: the command line is parsed, the directory     *)
(* `path` is listed once, and every listed name for which path+item is a   *)
(* regular file is opened as an image, resized to (width, height) and      *)
(* saved over path+item.  The state is the script's globals, its position, *)
(* the files it holds open and the file system it acts on.                 *)
(***************************************************************************)
EXTENDS Integers, Sequences, FiniteSets, TLC

\* ------------------------------------------------------------------ bounds
\* The longest command line (tokens after the script name).
MaxArgc == 4
\* The most entries the directory holds when the process starts.
NumEntries == 2
\* width and height are drawn from 1..MaxDim.
MaxDim == 2
\* The number of successive processes (runs) on the same directory.
MaxRuns == 2
\* The number of changes other processes make to the directory during a run.
MaxEnv == 1

\* --------------------------------------------------------------- constants
None == <<>>
Some(v) == <<v>>

\* The directory the file system holds, the separator, and the help flag
\* argparse.ArgumentParser() adds by default.
Dir == "d"
Sep == "/"
HelpFlag == "-h"

\* Command-line tokens: the directory with and without its trailing
\* separator, the help flag, and decimal integers.
IntTokens == {ToString(i) : i \in 1..MaxDim}
Tokens == {Dir \o Sep, Dir, HelpFlag} \cup IntTokens

\* type=int of add_argument: int(tok), None when int() raises ValueError.
ParseInt(tok) ==
  IF \E i \in 0..9 : ToString(i) = tok
  THEN Some(CHOOSE i \in 0..9 : ToString(i) = tok)
  ELSE None

\* ------------------------------------------------------------- file system
Name(i) == "f" \o ToString(i)
\* The entry Name(i) of Dir, the file it holds when it is a subdirectory, and
\* the sibling of Dir whose path is Dir's path followed directly by Name(i).
EntryPath(i) == Dir \o Sep \o Name(i)
ChildPath(i) == EntryPath(i) \o Sep \o "in"
SibPath(i) == Dir \o Name(i)
Slots == 1..NumEntries
Paths == {EntryPath(i) : i \in Slots} \cup {ChildPath(i) : i \in Slots}
           \cup {SibPath(i) : i \in Slots}

\* The size of every image before the first run.
OrigDim == MaxDim + 1

\* A node of the file system.  fmt is the image format the extension of the
\* node's name stands for ("" when it stands for none): it belongs to the
\* name, and stays when the node is removed or replaced.
Absent == [kind |-> "absent", data |-> "", fmt |-> "", w |-> 0, h |-> 0, enc |-> ""]
DirNode == [kind |-> "dir", data |-> "", fmt |-> "", w |-> 0, h |-> 0, enc |-> ""]
\* A regular file holding an image of w x h pixels in the format fmt;
\* enc tells the original bytes ("orig") from the library's encoding ("pil").
Img(fmt, w, h, enc) ==
  [kind |-> "file", data |-> "image", fmt |-> fmt, w |-> w, h |-> h, enc |-> enc]
\* A regular file that is no image, and one cut short while being written.
Junk == [kind |-> "file", data |-> "junk", fmt |-> "", w |-> 0, h |-> 0, enc |-> "orig"]
Trunc(fmt) == [kind |-> "file", data |-> "trunc", fmt |-> fmt, w |-> 0, h |-> 0, enc |-> "pil"]

\* Formats: "jpeg" is closed by the library once its data is loaded, "gif"
\* (a multi-frame format) stays open as long as the image object lives.
Formats == {"jpeg", "gif"}
EntryKinds == Formats \cup {"junk", "dir"}

NodeOf(k) ==
  CASE k = "junk" -> Junk
    [] k = "dir" -> DirNode
    [] OTHER -> Img(k, OrigDim, OrigDim, "orig")

\* The file system in which Dir holds the entries Name(1..n) of the kinds ks
\* and, when sib, Dir's parent holds the regular image file SibPath(1).
MkFs(n, ks, sib) ==
  [p \in Paths |->
     IF \E i \in 1..n : p = EntryPath(i)
       THEN NodeOf(ks[CHOOSE i \in 1..n : p = EntryPath(i)])
     ELSE IF \E i \in 1..n : p = ChildPath(i) /\ ks[i] = "dir"
       THEN Img("jpeg", OrigDim, OrigDim, "orig")
     ELSE IF sib /\ p = SibPath(1)
       THEN Img("jpeg", OrigDim, OrigDim, "orig")
     ELSE Absent]

\* os.path.exists in the place of os.path.isfile: directories pass too.
isfileExists(f, p) == p \in DOMAIN f /\ f[p].kind # "absent"

\* os.path.isfile: the path names a regular file.
isfile(f, p) == p \in DOMAIN f /\ f[p].kind = "file"

\* The names os.listdir returns for a path naming Dir; the order is the
\* platform's, so every ordering of the names is possible.
EntryNames(f) == {Name(i) : i \in {j \in Slots : f[EntryPath(j)].kind # "absent"}}
Orderings(S) ==
  {s \in [1..Cardinality(S) -> S] : \A i, j \in 1..Cardinality(S) : s[i] = s[j] => i = j}
\* Whether a path string names the directory Dir.
NamesDir(p) == p = Dir \/ p = Dir \o Sep

VARIABLES
  pc,        \* the statement the script is at
  argc,      \* tokens of the command line consumed so far
  npos,      \* positional tokens among them
  args,      \* the namespace parse_args fills
  extras,    \* a positional beyond the three declared was seen
  path, width, height,   \* the globals of lines 11-13
  dirs,      \* the listing of line 18
  idx,       \* position of the for loop in dirs
  tmp,       \* the image Image.open returned, not yet bound to im
  im,        \* the global im
  imResize,  \* the global imResize
  garbage,   \* files still open whose image object is unreachable
  fs,        \* the file system
  status,    \* exit status of the process (-1 while it runs)
  exc,       \* how the process ended, and at which file
  run,       \* which process this is
  out,       \* the paths whose image was printed
  opened,    \* paths this process opened for reading
  written,   \* paths this process opened for writing
  nlist,     \* number of os.listdir calls of this process
  fs0,       \* the file system before the first run
  fs1,       \* the file system when this process started
  envn       \* changes made to the directory by other processes

vars == <<pc, argc, npos, args, extras, path, width, height, dirs, idx, tmp, im,
          imResize, garbage, fs, status, exc, run, out, opened, written, nlist,
          fs0, fs1, envn>>

parserVars == <<argc, npos, args, extras>>
globalVars == <<path, width, height>>
heapVars == <<tmp, im, imResize, garbage>>
ghostVars == <<run, fs0, fs1, envn>>

NoArgs == [path |-> None, width |-> None, height |-> None]
NoExc == [kind |-> "none", at |-> ""]

Init ==
  /\ pc = "parse"
  /\ argc = 0 /\ npos = 0 /\ args = NoArgs /\ extras = FALSE
  /\ path = None /\ width = None /\ height = None
  /\ dirs = <<>> /\ idx = 0
  /\ tmp = None /\ im = None /\ imResize = None /\ garbage = {}
  /\ \E n \in 0..NumEntries : \E ks \in [1..n -> EntryKinds] : \E sib \in BOOLEAN :
       fs = MkFs(n, ks, sib)
  /\ status = -1 /\ exc = NoExc
  /\ run = 1 /\ out = <<>> /\ opened = {} /\ written = {} /\ nlist = 0
  /\ fs0 = fs /\ fs1 = fs /\ envn = 0

\* -------------------------------------------------------- process endings
\* An argparse error that leaves with status 0, as the help text does.
ExitStatusUsageZero(kind) ==
  CASE kind \in {"ok", "help", "usage"} -> 0
    [] OTHER -> 1

\* The exit status of each way the process ends: 0 at the end of the script
\* and after the help text, 2 for an argparse error, 1 for exit(1) and for an
\* uncaught exception.
ExitStatusOf(kind) ==
  CASE kind \in {"ok", "help"} -> 0
    [] kind = "usage" -> 2
    [] OTHER -> 1

\* The process ends: its objects and its open files are gone.
Terminate(kind, at) ==
  /\ pc' = "exit"
  /\ status' = ExitStatusOf(kind)
  /\ exc' = [kind |-> kind, at |-> at]
  /\ tmp' = None /\ im' = None /\ imResize' = None /\ garbage' = {}

\* The exception caught and dropped (try/except around the statement): the
\* script goes on with the next item.
Swallowed(kind, at) ==
  /\ pc' = "loop"
  /\ status' = status
  /\ exc' = exc
  /\ tmp' = None /\ im' = im /\ imResize' = imResize /\ garbage' = garbage

\* An exception raised in the loop body: nothing catches it, the process ends.
Uncaught(kind, at) == Terminate(kind, at)

\* The file a loop iteration works on: path and item, concatenated (lines
\* 22, 23 and 26).
Target(p, item) == p \o item

\* ------------------------------------------------------------ command line
\* One step of parse_args over sys.argv[1:]: the next token is the help flag
\* (print the help, exit 0) or a positional, converted by its type as it is
\* consumed (a ValueError of int() is an argparse error, exit 2).
ParseToken ==
  /\ pc = "parse" /\ argc < MaxArgc
  /\ \E tok \in Tokens :
       /\ argc' = argc + 1
       /\ IF tok = HelpFlag
            THEN Terminate("help", "") /\ UNCHANGED <<npos, args, extras>>
          ELSE /\ npos' = npos + 1
               /\ IF args.path = None
                    THEN /\ args' = [args EXCEPT !.path = Some(tok)]
                         /\ UNCHANGED <<pc, status, exc, heapVars, extras>>
                  ELSE IF args.width = None
                    THEN IF ParseInt(tok) = None
                           THEN Terminate("usage", "") /\ UNCHANGED <<args, extras>>
                           ELSE /\ args' = [args EXCEPT !.width = ParseInt(tok)]
                                /\ UNCHANGED <<pc, status, exc, heapVars, extras>>
                  ELSE IF args.height = None
                    THEN IF ParseInt(tok) = None
                           THEN Terminate("usage", "") /\ UNCHANGED <<args, extras>>
                           ELSE /\ args' = [args EXCEPT !.height = ParseInt(tok)]
                                /\ UNCHANGED <<pc, status, exc, heapVars, extras>>
                  ELSE /\ extras' = TRUE
                       /\ UNCHANGED <<pc, status, exc, heapVars, args>>
  /\ UNCHANGED <<globalVars, dirs, idx, fs, out, opened, written, nlist, ghostVars>>

\* A required positional is absent from the namespace.
Missing(a) == a.path = None \/ a.width = None \/ a.height = None

\* The end of sys.argv: a missing positional or an unrecognized one is an
\* argparse error (exit 2); otherwise parse_args returns the namespace.
ParseEnd ==
  /\ pc = "parse"
  /\ IF Missing(args) \/ extras
       THEN Terminate("usage", "")
       ELSE pc' = "assign" /\ UNCHANGED <<status, exc, heapVars>>
  /\ UNCHANGED <<parserVars, globalVars, dirs, idx, fs, out, opened, written,
                 nlist, ghostVars>>

\* Lines 11-13.
Assign ==
  /\ pc = "assign"
  /\ path' = args.path /\ width' = args.width /\ height' = args.height
  /\ pc' = "check"
  /\ UNCHANGED <<parserVars, dirs, idx, heapVars, fs, status, exc, out, opened,
                 written, nlist, ghostVars>>

\* Lines 15-16.
Check ==
  /\ pc = "check"
  /\ IF path = None \/ width = None \/ height = None
       THEN Terminate("noarg", "")
       ELSE pc' = "listdir" /\ UNCHANGED <<status, exc, heapVars>>
  /\ UNCHANGED <<parserVars, globalVars, dirs, idx, fs, out, opened, written,
                 nlist, ghostVars>>

\* Line 18: os.listdir(path) raises when path names no directory.
ListDir ==
  /\ pc = "listdir"
  /\ nlist' = nlist + 1
  /\ IF NamesDir(path[1])
       THEN /\ \E s \in Orderings(EntryNames(fs)) : dirs' = s
            /\ pc' = "loop"
            /\ UNCHANGED <<status, exc, heapVars>>
       ELSE Uncaught("listdir", path[1]) /\ UNCHANGED dirs
  /\ UNCHANGED <<parserVars, globalVars, idx, fs, out, opened, written, ghostVars>>

\* ---------------------------------------------------------------- the loop
\* A loop over a listing that is read again at every iteration: the names
\* that have appeared since are appended.
IterListFresh(d, f) ==
  d \o (CHOOSE s \in Orderings(EntryNames(f) \ {d[k] : k \in 1..Len(d)}) : TRUE)

\* The sequence `for item in dirs` iterates over: the list bound at line 18.
IterList(d, f) == d

\* Line 21: the next item, or the end of the loop, of resize() and of the
\* script (exit 0).
ForNext ==
  /\ pc = "loop"
  /\ dirs' = IterList(dirs, fs)
  /\ IF idx < Len(dirs')
       THEN idx' = idx + 1 /\ pc' = "isfile" /\ UNCHANGED <<status, exc, heapVars>>
       ELSE Terminate("ok", "") /\ UNCHANGED idx
  /\ UNCHANGED <<parserVars, globalVars, fs, out, opened, written, nlist, ghostVars>>

\* Line 22.
IsFile ==
  /\ pc = "isfile"
  /\ pc' = IF isfile(fs, Target(path[1], dirs[idx])) THEN "open" ELSE "loop"
  /\ UNCHANGED <<parserVars, globalVars, dirs, idx, heapVars, fs, status, exc,
                 out, opened, written, nlist, ghostVars>>

\* Line 23, the call: Image.open opens the file and reads its header.  A path
\* that names no regular file raises OSError; a file that is no image is
\* closed again and UnidentifiedImageError is raised; an image is returned
\* with its file still open (the data is read on load).
Open ==
  /\ pc = "open"
  /\ LET p == Target(path[1], dirs[idx]) IN
       IF p \notin DOMAIN fs \/ fs[p].kind # "file"
         THEN Uncaught("open", p) /\ UNCHANGED opened
       ELSE IF fs[p].data # "image"
         THEN Uncaught("decode", p) /\ opened' = opened \cup {p}
       ELSE /\ tmp' = Some([p |-> p, w |-> fs[p].w, h |-> fs[p].h,
                            fmt |-> fs[p].fmt, fp |-> TRUE])
            /\ opened' = opened \cup {p}
            /\ pc' = "bind"
            /\ UNCHANGED <<im, imResize, garbage, status, exc>>
  /\ UNCHANGED <<parserVars, globalVars, dirs, idx, fs, out, written, nlist, ghostVars>>

\* Line 23, the assignment: im is rebound, and the image it named is
\* unreachable.  Nothing closes that image's file but its finalisation: at
\* once where objects are reference-counted, later otherwise.
Bind ==
  /\ pc = "bind"
  /\ im' = tmp /\ tmp' = None
  /\ \E now \in BOOLEAN :
       garbage' = IF im # None /\ im[1].fp /\ ~now
                    THEN garbage \cup {im[1].p} ELSE garbage
  /\ pc' = "print"
  /\ UNCHANGED <<parserVars, globalVars, dirs, idx, imResize, fs, status, exc,
                 out, opened, written, nlist, ghostVars>>

\* The finalisation of unreachable images closes their files.
Collect ==
  /\ pc # "exit" /\ garbage # {}
  /\ garbage' = {}
  /\ UNCHANGED <<pc, parserVars, globalVars, dirs, idx, tmp, im, imResize, fs,
                 status, exc, out, opened, written, nlist, ghostVars>>

\* Line 24.
PrintIm ==
  /\ pc = "print"
  /\ out' = Append(out, im[1].p)
  /\ pc' = "resize"
  /\ UNCHANGED <<parserVars, globalVars, dirs, idx, heapVars, fs, status, exc,
                 opened, written, nlist, ghostVars>>

\* Whether the library closes an image's file once its data is loaded.
ClosesAfterLoad(fmt) == fmt # "gif"

\* (width, height) taken as factors of the image's size.
NewSizeScaled(i, w, h) == [w |-> i.w * w, h |-> i.h * h]
\* (height, width) in the place of (width, height).
NewSizeSwapped(i, w, h) == [w |-> h, h |-> w]

\* The size of the image im.resize((width, height), ...) returns.
NewSize(i, w, h) == [w |-> w, h |-> h]

\* Line 25: resize loads the image data and returns a new image.
Resize ==
  /\ pc = "resize"
  /\ im' = Some([im[1] EXCEPT !.fp = ~ClosesAfterLoad(im[1].fmt)])
  /\ imResize' = Some(NewSize(im[1], width[1], height[1]))
  /\ pc' = "save"
  /\ UNCHANGED <<parserVars, globalVars, dirs, idx, tmp, garbage, fs, status, exc,
                 out, opened, written, nlist, ghostVars>>

\* im.save in the place of imResize.save.
SaveSourceOriginal(i, r) == [w |-> i.w, h |-> i.h]

\* The image line 26 saves.
SaveSource(i, r) == r

\* Line 26: save opens path+item for writing, which truncates it, and writes
\* the image in the format of the file's extension.
Save ==
  /\ pc = "save"
  /\ LET p == Target(path[1], dirs[idx])
         s == SaveSource(im[1], imResize[1]) IN
       IF p \notin DOMAIN fs \/ fs[p].kind = "dir"
         THEN Uncaught("encode", p) /\ UNCHANGED <<fs, written>>
         ELSE /\ fs' = [fs EXCEPT ![p] = Img(fs[p].fmt, s.w, s.h, "pil")]
              /\ written' = written \cup {p}
              /\ pc' = "loop"
              /\ UNCHANGED <<heapVars, status, exc>>
  /\ UNCHANGED <<parserVars, globalVars, dirs, idx, out, opened, nlist, ghostVars>>

\* The same command line again, once the process has ended with status 0:
\* parse_args is a function of the command line, so args is the same
\* namespace and the new process is taken up at line 11.
Rerun ==
  /\ pc = "exit" /\ exc.kind = "ok" /\ run < MaxRuns
  /\ run' = run + 1 /\ fs1' = fs
  /\ pc' = "assign" /\ status' = -1 /\ exc' = NoExc
  /\ path' = None /\ width' = None /\ height' = None
  /\ dirs' = <<>> /\ idx' = 0 /\ out' = <<>>
  /\ opened' = {} /\ written' = {} /\ nlist' = 0
  /\ UNCHANGED <<parserVars, heapVars, fs, fs0, envn>>

\* One process.
Step ==
  \/ ParseToken \/ ParseEnd \/ Assign \/ Check \/ ListDir
  \/ ForNext \/ IsFile \/ Open \/ Bind \/ Collect \/ PrintIm \/ Resize \/ Save

Next == Step \/ Rerun

Spec == Init /\ [][Next]_vars

\* ------------------------------------------------- failures of the write
\* Line 26 when path+item cannot be opened for writing (permissions): the
\* exception ends the process and the file is as it was.
SaveDenied ==
  /\ pc = "save"
  /\ Uncaught("encode", Target(path[1], dirs[idx]))
  /\ UNCHANGED <<parserVars, globalVars, dirs, idx, fs, out, opened, written,
                 nlist, ghostVars>>

\* Line 26 when the write fails after path+item was opened for writing (the
\* device is full): the file was truncated by the open and stays cut short.
SaveTruncated ==
  /\ pc = "save"
  /\ LET p == Target(path[1], dirs[idx]) IN
       /\ p \in DOMAIN fs /\ fs[p].kind # "dir"
       /\ fs' = [fs EXCEPT ![p] = Trunc(fs[p].fmt)]
       /\ written' = written \cup {p}
       /\ Uncaught("encode", p)
  /\ UNCHANGED <<parserVars, globalVars, dirs, idx, out, opened, nlist, ghostVars>>

NextFault == Next \/ SaveDenied \/ SaveTruncated

SpecFault == Init /\ [][NextFault]_vars

\* ------------------------------------- other processes acting on Dir
\* After the script has listed Dir, another process creates a regular image
\* file in Dir.
EnvCreate ==
  /\ pc # "exit" /\ nlist > 0 /\ envn < MaxEnv
  /\ \E i \in Slots :
       /\ fs[EntryPath(i)].kind = "absent"
       /\ fs' = [fs EXCEPT ![EntryPath(i)] = Img("jpeg", OrigDim, OrigDim, "orig")]
  /\ envn' = envn + 1
  /\ UNCHANGED <<pc, parserVars, globalVars, dirs, idx, heapVars, status, exc, run,
                 out, opened, written, nlist, fs0, fs1>>

\* After the script has listed Dir, another process removes a regular file of
\* Dir.
EnvRemove ==
  /\ pc # "exit" /\ nlist > 0 /\ envn < MaxEnv
  /\ \E i \in Slots :
       /\ fs[EntryPath(i)].kind = "file"
       /\ fs' = [fs EXCEPT ![EntryPath(i)] = [Absent EXCEPT !.fmt = fs[EntryPath(i)].fmt]]
  /\ envn' = envn + 1
  /\ UNCHANGED <<pc, parserVars, globalVars, dirs, idx, heapVars, status, exc, run,
                 out, opened, written, nlist, fs0, fs1>>

\* One process, with other processes acting on Dir during its loop.
NextEnv == Step \/ EnvCreate \/ EnvRemove

SpecEnv == Init /\ [][NextEnv]_vars

\* ============================================================== properties
\* Properties of Spec, but for C6 and C8, which are properties of SpecFault
\* (they are about failed writes), and C9, a property of SpecEnv (it is about
\* a directory that changes during the loop).
Range(q) == {q[i] : i \in 1..Len(q)}
Running == pc # "exit"
\* The process got past the command line: path, width and height are bound.
Ran == path # None /\ width # None /\ height # None
\* path was given with its trailing separator.
HasSep == path = Some(Dir \o Sep)
IsImage(n) == n.kind = "file" /\ n.data = "image"
\* The node is an image of exactly width x height pixels.
Resized(n) == IsImage(n) /\ n.w = width[1] /\ n.h = height[1]
\* The files the process holds open.
OpenFiles ==
  (IF tmp # None /\ tmp[1].fp THEN {tmp[1].p} ELSE {})
    \cup (IF im # None /\ im[1].fp THEN {im[1].p} ELSE {}) \cup garbage
\* The entries of Dir in the file system f, and the position of a name in dirs.
EntrySlots(f) == {i \in Slots : f[EntryPath(i)].kind # "absent"}
PosOf(name) == CHOOSE k \in 1..Len(dirs) : dirs[k] = name

\* C1: when every direct entry of the directory is a regular, decodable image
\* file and path ends with the separator, the run ends with status 0, every
\* listed file is an image of exactly width x height pixels written by the
\* run, and every path holds the same kind of node as before the run.
C1_AllResized ==
  (pc = "exit" /\ Ran /\ HasSep /\ \A i \in EntrySlots(fs1) : IsImage(fs1[EntryPath(i)]))
    => /\ status = 0
       /\ \A i \in EntrySlots(fs1) :
            /\ Resized(fs[EntryPath(i)])
            /\ fs[EntryPath(i)].fmt = fs1[EntryPath(i)].fmt
            /\ EntryPath(i) \in written
       /\ \A p \in Paths : fs[p].kind = fs1[p].kind

C1_Witness ==
  /\ pc = "exit" /\ Ran /\ HasSep /\ run = 1 /\ status = 0
  /\ width[1] # height[1]
  /\ Cardinality(EntrySlots(fs0)) = NumEntries
  /\ \A i \in EntrySlots(fs0) : IsImage(fs0[EntryPath(i)]) /\ Resized(fs[EntryPath(i)])
  /\ \E i \in EntrySlots(fs0) : fs0[EntryPath(i)].fmt = "gif"

\* The directory holds exactly one regular file that is no image, among images.
OneJunkAmongImages(f) ==
  /\ Cardinality({i \in EntrySlots(f) : f[EntryPath(i)].data = "junk"}) = 1
  /\ \E i \in EntrySlots(f) : IsImage(f[EntryPath(i)])
  /\ \A i \in EntrySlots(f) : f[EntryPath(i)].kind = "file"
JunkSlot(f) == CHOOSE i \in EntrySlots(f) : f[EntryPath(i)].data = "junk"
AbortsAtJunk ==
  /\ exc = [kind |-> "decode", at |-> EntryPath(JunkSlot(fs1))]
  /\ status # 0
  /\ \A i \in EntrySlots(fs1) :
       IF PosOf(Name(i)) < PosOf(Name(JunkSlot(fs1)))
         THEN Resized(fs[EntryPath(i)])
         ELSE fs[EntryPath(i)] = fs1[EntryPath(i)] /\ EntryPath(i) \notin written

\* C2: when the directory holds exactly one regular file that is no image
\* among images, the run ends with an uncaught decode error at that file, the
\* images listed before it are width x height, and that file and the entries
\* listed after it are as they were.
C2_AbortAtUndecodable ==
  (pc = "exit" /\ Ran /\ NamesDir(path[1]) /\ OneJunkAmongImages(fs1)) => AbortsAtJunk

\* C2, for a path given with its trailing separator.
C2_WithSeparator ==
  (pc = "exit" /\ Ran /\ HasSep /\ OneJunkAmongImages(fs1)) => AbortsAtJunk

C2_WithSeparatorWitness ==
  /\ pc = "exit" /\ Ran /\ HasSep /\ OneJunkAmongImages(fs0) /\ run = 1
  /\ PosOf(Name(JunkSlot(fs0))) > 1
  /\ exc.kind = "decode"

\* A subdirectory of Dir and the file in it are as they were, were never
\* opened or written, and the loop body is never at a subdirectory.
SubdirsUntouched ==
  \A i \in Slots :
    fs0[EntryPath(i)].kind = "dir"
      => /\ fs[EntryPath(i)] = fs0[EntryPath(i)]
         /\ fs[ChildPath(i)] = fs0[ChildPath(i)]
         /\ {EntryPath(i), ChildPath(i)} \cap (opened \cup written \cup OpenFiles) = {}
         /\ ~(pc \in {"open", "bind", "print", "resize", "save"} /\ HasSep
                /\ dirs[idx] = Name(i))
\* A run over images and subdirectories ends with every image resized.
AllImagesDespiteSubdirs ==
  (pc = "exit" /\ Ran /\ HasSep
     /\ \A i \in EntrySlots(fs1) : IsImage(fs1[EntryPath(i)]) \/ fs1[EntryPath(i)].kind = "dir")
    => /\ status = 0
       /\ \A i \in EntrySlots(fs1) : IsImage(fs1[EntryPath(i)]) => Resized(fs[EntryPath(i)])
\* The step of line 22 at a path that is no regular file goes on to the next
\* item and changes nothing else.
SkipStep ==
  (pc = "isfile" /\ pc' # pc /\ ~isfile(fs, Target(path[1], dirs[idx])))
    => /\ pc' = "loop" /\ status' = -1
       /\ UNCHANGED <<fs, opened, written, dirs, idx, heapVars>>

\* C3: an entry that is a directory is never opened or written, it and the
\* file it holds stay as they were, a name whose path is no regular file is
\* passed over by a step that changes nothing else and leaves the loop
\* running, and a run over images and subdirectories resizes every image.
C3_NonRegularSkipped ==
  [](SubdirsUntouched /\ AllImagesDespiteSubdirs) /\ [][SkipStep]_vars

C3_Witness ==
  /\ pc = "exit" /\ Ran /\ HasSep /\ status = 0 /\ Len(dirs) = NumEntries
  /\ fs0[Target(path[1], dirs[1])].kind = "dir"
  /\ IsImage(fs0[Target(path[1], dirs[Len(dirs)])])
  /\ Resized(fs[Target(path[1], dirs[Len(dirs)])])

\* The directory was not listed, no file was opened or changed.
NothingDone ==
  nlist = 0 /\ dirs = <<>> /\ opened = {} /\ written = {} /\ fs = fs0 /\ ~Ran

C5_InsideDir ==
  \A p \in opened \cup written : \E i \in Slots : p = EntryPath(i) /\ fs[p].kind = "file"

\* The directory was listed, the loop reached the end of the list, and every
\* listed name whose path is a regular file was written as a width x height
\* image.
Completed ==
  /\ Ran /\ NamesDir(path[1]) /\ nlist = 1 /\ idx = Len(dirs)
  /\ \A k \in 1..Len(dirs) :
       LET p == Target(path[1], dirs[k]) IN
         isfile(fs, p) => (Resized(fs[p]) /\ p \in written)
C7_Idempotent ==
  (pc = "exit" /\ run > 1)
    => /\ status = 0
       /\ \A p \in Paths : fs[p].w = fs1[p].w /\ fs[p].h = fs1[p].h /\ fs[p].kind = fs1[p].kind
       /\ \A p \in written : Resized(fs[p])

C7_Witness ==
  /\ pc = "exit" /\ run = 2 /\ HasSep /\ width[1] # height[1]
  /\ Cardinality(written) = NumEntries
  /\ \A p \in written : Resized(fs1[p]) /\ ~Resized(fs0[p])

\* The file is as it was before the run, or a width x height image the run wrote.
TwoStates(p) ==
  fs[p] = fs1[p] \/ (Resized(fs[p]) /\ fs[p].enc = "pil" /\ p \in written)
\* C8 (as claimed): after a run that a decode or an encode failure ended,
\* every regular file is either as it was before the run or an image of
\* width x height written by the run.
C8_TwoStates ==
  (pc = "exit" /\ exc.kind \in {"decode", "encode"})
    => \A p \in Paths : fs1[p].kind = "file" => TwoStates(p)

\* C8 (amended): that holds of every regular file but the one at which an
\* encode failure occurred, which is as it was or cut short.
C8_TwoStatesButFailed ==
  (pc = "exit" /\ exc.kind \in {"decode", "encode"})
    => \A p \in Paths :
         fs1[p].kind = "file"
           => IF p = exc.at /\ exc.kind = "encode"
                THEN fs[p] = fs1[p] \/ fs[p] = Trunc(fs1[p].fmt)
                ELSE TwoStates(p)

C8_Witness ==
  /\ pc = "exit" /\ exc.kind = "encode" /\ HasSep /\ run = 1 /\ width[1] # height[1]
  /\ fs[exc.at].data = "trunc"
  /\ \E p \in Paths : p # exc.at /\ Resized(fs[p])
  /\ \E p \in Paths : p # exc.at /\ IsImage(fs[p]) /\ fs[p].enc = "orig"

\* At most one listing; what was opened, written and printed is made of the
\* names of the list up to the loop's position; the list holds no name twice.
VisitedInOrder ==
  /\ nlist <= 1
  /\ idx <= Len(dirs)
  /\ (nlist = 0) => (dirs = <<>> /\ opened = {} /\ written = {})
  /\ Ran => (opened \cup written) \subseteq {Target(path[1], dirs[k]) : k \in 1..idx}
  /\ Ran => \A k \in 1..Len(out) :
              \E j \in k..idx : out[k] = Target(path[1], dirs[j])
  /\ \A j, k \in 1..Len(dirs) : dirs[j] = dirs[k] => j = k
\* The list is not changed once made, and the loop moves one item at a time.
ListKept == (nlist = 1 /\ nlist' = 1) => dirs' = dirs
OneByOne == idx' = idx \/ (idx' = idx + 1 /\ pc = "loop" /\ pc' = "isfile")

\* C9: the directory is listed at most once per process and the list is never
\* changed afterwards; the process opens and writes only paths made of the
\* names of that list up to the loop's position, in the list's order; a file
\* that appears after the listing is never opened or written; a listed name
\* that is no regular file when it is reached is passed over.
C9_ListedOnce ==
  []VisitedInOrder /\ [][ListKept /\ OneByOne /\ SkipStep]_vars

C9_Witness ==
  /\ pc = "exit" /\ exc.kind = "ok" /\ HasSep /\ envn > 0 /\ Len(dirs) > 0
  /\ written = {Target(path[1], dirs[k]) : k \in 1..Len(dirs)}
  /\ \E i \in Slots : /\ Name(i) \notin Range(dirs)
                      /\ fs[EntryPath(i)] = Img("jpeg", OrigDim, OrigDim, "orig")

\* A listed name that is gone when the loop reaches it is passed over.
C9_GoneWitness ==
  /\ pc = "exit" /\ exc.kind = "ok" /\ HasSep /\ envn > 0 /\ Len(dirs) = NumEntries
  /\ fs[Target(path[1], dirs[Len(dirs)])].kind = "absent"
  /\ Cardinality(written) = NumEntries - 1

\* C10: the process never holds more than one file open.
C10_OneOpen == Cardinality(OpenFiles) <= 1

====
